---- MODULE Spec2Model ----
(***************************************************************************)
(* A model of docsright.py: the spell checker for documentation prose.     *)
(*                                                                         *)
(* Strings are sequences of one-character strings, so that the code's      *)
(* string operations (lower(), comparison, regular expressions, f-string   *)
(* concatenation, removesuffix) are computed and not assumed.              *)
(*                                                                         *)
(* Spec      the run of Spell.checkAll: tasks, files, the Occurrence       *)
(*           Index, check(), deliver() and the summary table.              *)
(* SpecNorm  the text substitutions of Spell.operation on one chunk.       *)
(***************************************************************************)
EXTENDS Integers, Sequences, FiniteSets, TLC

(***************************************************************************)
(* Bounds of the model.                                                    *)
(***************************************************************************)
MaxTasks == 2
MaxFiles == 2

(***************************************************************************)
(* Characters and strings.                                                 *)
(***************************************************************************)
\* The characters the model uses, in code point order.  The backquote (U+0060)
\* is written "'" (TICK): a TLA+ string literal cannot hold a backquote, and the
\* model uses no apostrophe.
CharOrder ==
    << "\n", " ", "!", "#", "(", ")", ".", "/", "0", "1", "2", "3", "=", ">",
       "A", "B", "C", "D", "E", "F", "G", "H", "I", "J", "K", "L", "M", "N",
       "O", "P", "Q", "R", "S", "T", "U", "V", "W", "X", "Y", "Z",
       "[", "]", "_", "'",
       "a", "b", "c", "d", "e", "f", "g", "h", "i", "j", "k", "l", "m", "n",
       "o", "p", "q", "r", "s", "t", "u", "v", "w", "x", "y", "z", "|", "~" >>

TICK == "'"

OrdOf == [c \in { CharOrder[i] : i \in 1..Len(CharOrder) } |->
             CHOOSE i \in 1..Len(CharOrder) : CharOrder[i] = c]
Ord(c) == OrdOf[c]

Upper == << "A", "B", "C", "D", "E", "F", "G", "H", "I", "J", "K", "L", "M",
            "N", "O", "P", "Q", "R", "S", "T", "U", "V", "W", "X", "Y", "Z" >>
Lower == << "a", "b", "c", "d", "e", "f", "g", "h", "i", "j", "k", "l", "m",
            "n", "o", "p", "q", "r", "s", "t", "u", "v", "w", "x", "y", "z" >>
Digits == << "0", "1", "2", "3", "4", "5", "6", "7", "8", "9" >>

Range(s) == { s[i] : i \in 1..Len(s) }
UpperSet == Range(Upper)
LowerSet == Range(Lower)
DigitSet == Range(Digits)
IsUpper(c) == c \in UpperSet
IsLower(c) == c \in LowerSet
IsDigit(c) == c \in DigitSet

\* str.lower() on one character and on a string
LowerOf == [c \in UpperSet |-> Lower[CHOOSE i \in 1..Len(Upper) : Upper[i] = c]]
lowerChar(c) == IF IsUpper(c) THEN LowerOf[c] ELSE c
lower(s) == [i \in 1..Len(s) |-> lowerChar(s[i])]

\* Python <  on strings: lexicographic by code point, a proper prefix first
StrLess(a, b) ==
    \E i \in 1..(Len(b)) :
        /\ i <= Len(a) + 1
        /\ \A j \in 1..(i - 1) : a[j] = b[j]
        /\ \/ i = Len(a) + 1
           \/ (i <= Len(a) /\ Ord(a[i]) < Ord(b[i]))

startswith(s, p) == Len(p) <= Len(s) /\ SubSeq(s, 1, Len(p)) = p
endswith(s, p) == Len(p) <= Len(s) /\ SubSeq(s, Len(s) - Len(p) + 1, Len(s)) = p
removesuffix(s, p) == IF endswith(s, p) THEN SubSeq(s, 1, Len(s) - Len(p)) ELSE s
removeprefix(s, p) == IF startswith(s, p) THEN SubSeq(s, Len(p) + 1, Len(s)) ELSE s

\* str.replace(old, new): every non-overlapping occurrence, left to right
RECURSIVE replace(_, _, _)
replace(s, old, new) ==
    IF Len(s) = 0 THEN << >>
    ELSE IF startswith(s, old)
         THEN new \o replace(SubSeq(s, Len(old) + 1, Len(s)), old, new)
         ELSE << s[1] >> \o replace(Tail(s), old, new)

\* str(n) for a small non-negative integer
RECURSIVE str(_)
str(n) == IF n < 10 THEN << Digits[n + 1] >> ELSE str(n \div 10) \o << Digits[(n % 10) + 1] >>

\* sorted(...) of a set S whose elements the strict total order Less compares:
\* the element at position i has i - 1 elements below it
sorted(S, Less(_, _)) ==
    [i \in 1..Cardinality(S) |->
        CHOOSE x \in S : Cardinality({ y \in S : Less(y, x) }) = i - 1]

(***************************************************************************)
(* The word exclusion patterns (lines 135-138) and str.isnumeric.          *)
(***************************************************************************)
isnumeric(w) == Len(w) > 0 /\ \A i \in 1..Len(w) : IsDigit(w[i])

\* HEX_RE = ^[a-f0-9]+$ with re.I
HEX_RE(w) ==
    /\ Len(w) > 0
    /\ \A i \in 1..Len(w) : IsDigit(w[i]) \/ lowerChar(w[i]) \in {"a", "b", "c", "d", "e", "f"}

\* NUM_PL = ^[0-9]+s$ with re.I
NUM_PL(w) ==
    /\ Len(w) >= 2
    /\ lowerChar(w[Len(w)]) = "s"
    /\ \A i \in 1..(Len(w) - 1) : IsDigit(w[i])

SizeSuffixes ==
    { <<"t", "h">>, <<"s", "t">>, <<"n", "d">>, <<"r", "d">>, <<"x">>, <<"p", "t">>,
      <<"k">>, <<"m">>, <<"g">>, <<"t">>, <<"p">>,
      <<"k", "b">>, <<"m", "b">>, <<"g", "b">>, <<"t", "b">>, <<"p", "b">> }

\* SIZES_RE = ^[0-9][0-9.]*(?:th|st|nd|rd|x|pt|(?:[KMGTP]B?))$ with re.I
SIZES_RE(w) ==
    \E k \in 1..Len(w) :
        /\ IsDigit(w[1])
        /\ \A i \in 2..k : IsDigit(w[i]) \/ w[i] = "."
        /\ lower(SubSeq(w, k + 1, Len(w))) \in SizeSuffixes

\* INITIALS_RE = ^[A-Z][a-z]?$
INITIALS_RE(w) ==
    \/ Len(w) = 1 /\ IsUpper(w[1])
    \/ Len(w) = 2 /\ IsUpper(w[1]) /\ IsLower(w[2])

\* The condition of the "continue" at lines 564-571
Excluded(word) ==
    \/ isnumeric(word)
    \/ HEX_RE(word)
    \/ NUM_PL(word)
    \/ SIZES_RE(word)
    \/ INITIALS_RE(word)

(***************************************************************************)
(* Paths: the file helpers imported at lines 73-82 (tf.core.files), by     *)
(* what they do on paths without "." and ".." components.                  *)
(***************************************************************************)
HomeDir == << "/", "h" >>
Cwd == << "/", "h", "/", "w" >>

RECURSIVE normpath(_)
normpath(path) ==
    IF Len(path) > 1 /\ path[Len(path)] = "/"
    THEN normpath(SubSeq(path, 1, Len(path) - 1))
    ELSE path

\* expanduser
ex(path) ==
    LET nPath == normpath(path)
    IN  IF startswith(nPath, << "~" >>) THEN HomeDir \o Tail(nPath) ELSE nPath

\* unexpanduser
ux(path) == replace(normpath(path), HomeDir, << "~" >>)

abspath(path) ==
    normpath(IF startswith(path, << "/" >>) THEN path ELSE Cwd \o << "/" >> \o path)

\* The directories that exist (isDir, line 317); nothing else exists.
ExistingDirs ==
    { << "/", "h", "/", "a" >>, << "/", "h", "/", "w", "/", "b" >>, << "/", "d" >> }

isDir(src) == src \in ExistingDirs
isFile(src) == FALSE

(***************************************************************************)
(* Sections: a notebook cell index (int) or a label (str); "name" at       *)
(* lines 454, 470, 514.  The tag is the run-time type that line 626 tests. *)
(***************************************************************************)
IntSec(n) == [int |-> TRUE, n |-> n, s |-> << >>]
StrSec(s) == [int |-> FALSE, n |-> 0, s |-> s]

\* The order of sorted(names) at line 624 (one file's names are all int or all str)
SecLess(a, b) == IF a.int /\ b.int THEN a.n < b.n ELSE StrLess(a.s, b.s)

\* The section field of line 626: str(name) if type(name) is int else (name or 'e')
SecField(name) ==
    IF name.int THEN str(name.n)
    ELSE IF name.s # << >> THEN name.s ELSE << "e" >>

(***************************************************************************)
(* The Occurrence Index self.words: word -> task -> file -> set of names.  *)
(* words[w] is the dict of tasks in insertion order, a sequence of         *)
(* [srcx, info] with info a function from the files to their name sets.    *)
(***************************************************************************)
TaskPos(occs, srcx) == { i \in 1..Len(occs) : occs[i].srcx = srcx }

\* A faulty variant of record: the sections of the file are replaced, not extended
recordReplaces(occs, srcx, srcFile, name) ==
    IF TaskPos(occs, srcx) = {}
    THEN Append(occs, [srcx |-> srcx, info |-> (srcFile :> {name})])
    ELSE LET i == CHOOSE j \in TaskPos(occs, srcx) : TRUE
         IN  [occs EXCEPT ![i].info = (srcFile :> {name})]

\* One word of lines 572-574, the setdefault chain ending in .add(name)
record(occs, srcx, srcFile, name) ==
    IF TaskPos(occs, srcx) = {}
    THEN Append(occs, [srcx |-> srcx, info |-> (srcFile :> {name})])
    ELSE LET i == CHOOSE j \in TaskPos(occs, srcx) : TRUE
             info == occs[i].info
             old == IF srcFile \in DOMAIN info THEN info[srcFile] ELSE {}
         IN  [occs EXCEPT ![i].info =
                 [f \in DOMAIN info \cup {srcFile} |->
                     IF f = srcFile THEN old \cup {name} ELSE info[f]]]

\* Lines 563-574 for one line of text: the distinct words of the line, the
\* excluded ones skipped
recordLine(ws, line, srcx, srcFile, name) ==
    LET new == { word \in Range(line) : ~Excluded(word) }
    IN  [w \in DOMAIN ws \cup new |->
            IF w \in new
            THEN record(IF w \in DOMAIN ws THEN ws[w] ELSE << >>, srcx, srcFile, name)
            ELSE ws[w]]

(***************************************************************************)
(* Inputs.  A chunk is the text of one section: raw is the number of raw   *)
(* lines read (incoming), lines are the lines of the text after the        *)
(* substitutions of lines 519-554, each line the sequence of its \w+       *)
(* words (a blank line has none), odd is the number of lines that had an   *)
(* odd number of backquotes at line 538.                                   *)
(***************************************************************************)
Teh == << "T", "e", "h" >>
teh == << "t", "e", "h" >>
the == << "t", "h", "e" >>
qzx == << "q", "z", "x" >>
Zoo == << "Z", "o", "o" >>
n12 == << "1", "2" >>
hexbe == << "b", "e" >>
pl3s == << "3", "s" >>
sz1MB == << "1", "M", "B" >>
initAb == << "A", "b" >>
XX == << "X", "X" >>

TextA == [raw |-> 1, odd |-> 0, lines |-> << << Teh, the >> >>]
TextB == [raw |-> 3, odd |-> 1, lines |-> << << qzx, n12, initAb >>, << >>, << Zoo, Teh, hexbe >> >>]
TextC == [raw |-> 2, odd |-> 0, lines |-> << << teh, pl3s >>, << sz1MB, Teh, teh >> >>]
NoDoc == [raw |-> 0, odd |-> 0, lines |-> << >>]

\* The file names a directory may hold
AMd == << "a", ".", "m", "d" >>
BPy == << "b", ".", "p", "y" >>
CIpynb == << "c", ".", "i", "p", "y", "n", "b" >>
RTxt == << "r", ".", "t", "x", "t" >>
DirFiles == << AMd, BPy, CIpynb, RTxt >>

MdSuffix == << ".", "m", "d" >>
PySuffix == << ".", "p", "y" >>
IpynbSuffix == << ".", "i", "p", "y", "n", "b" >>

\* Markdown files: the text of the whole file
MdContents == { TextB }

\* Notebooks: the cells, each of cell_type "markdown" or "code"; a notebook
\* that nbRead cannot read is [ok |-> FALSE]
MdCell(text) == [cell_type |-> "markdown", source |-> text]
CodeCell == [cell_type |-> "code", source |-> NoDoc]
IpynbContents ==
    { [ok |-> TRUE, cells |-> << MdCell(TextA), CodeCell, MdCell(TextC) >>],
      [ok |-> FALSE, cells |-> << >>] }

\* Python files: the nodes in the order of ast.walk; doc is what ast.get_docstring
\* returns (NoDoc: None or empty), raises says that it raises instead
Node(tp, name, doc, raises) == [tp |-> tp, name |-> name, doc |-> doc, raises |-> raises]
NameC == << "C" >>
NameF == << "f" >>
PyContents ==
    { [ok |-> TRUE, nodes |-> << Node("Module", << >>, TextA, FALSE),
                                 Node("ClassDef", NameC, TextC, FALSE),
                                 Node("Assign", << >>, NoDoc, FALSE),
                                 Node("FunctionDef", NameF, TextB, FALSE) >>],
      [ok |-> TRUE, nodes |-> << Node("Module", << >>, NoDoc, FALSE),
                                 Node("FunctionDef", NameF, TextA, FALSE),
                                 Node("FunctionDef", NameF, TextC, FALSE) >>],
      [ok |-> TRUE, nodes |-> << Node("Module", << >>, TextA, FALSE),
                                 Node("ClassDef", NameC, TextC, TRUE),
                                 Node("FunctionDef", NameF, TextB, FALSE) >>],
      [ok |-> FALSE, nodes |-> << >>] }

(***************************************************************************)
(* Spell.operation (lines 430-576) as a function of the file's content.    *)
(* chunks is the dict of line 441: a sequence of [name, text] in insertion *)
(* order, a second assignment to a key replacing the first.                *)
(***************************************************************************)
Msg(kind, file, at) == [kind |-> kind, file |-> file, at |-> at]

put(chunks, name, text) ==
    LET at == { i \in 1..Len(chunks) : chunks[i].name = name }
    IN  IF at = {} THEN Append(chunks, [name |-> name, text |-> text])
        ELSE [chunks EXCEPT ![CHOOSE i \in at : TRUE].text = text]

NoChunks == [chunks |-> << >>, incoming |-> 0, msgs |-> << >>]

\* lines 447-454
extractMd(text) ==
    [chunks |-> << [name |-> StrSec(<< >>), text |-> text] >>,
     incoming |-> text.raw, msgs |-> << >>]

\* lines 460-470, from cell i on (cellNr = i - 1)
RECURSIVE extractCells(_, _, _)
extractCells(cells, i, acc) ==
    IF i > Len(cells) THEN acc
    ELSE IF cells[i].cell_type # "markdown" THEN extractCells(cells, i + 1, acc)
    ELSE extractCells(cells, i + 1,
            [acc EXCEPT !.incoming = @ + cells[i].source.raw,
                        !.chunks = put(@, IntSec(i - 1), cells[i].source)])

\* line 491-497
Kind(node) ==
    IF node.tp = "Module" THEN << >>
    ELSE IF node.tp = "ClassDef" THEN << "c", "l", "a", "s", "s", " " >> \o node.name
    ELSE << "d", "e", "f", " " >> \o node.name

\* lines 482-514, from node i on; the break of line 504 ends the walk
RECURSIVE walk(_, _, _, _)
walk(nodes, i, srcFile, acc) ==
    IF i > Len(nodes) THEN acc
    ELSE IF nodes[i].tp \notin {"Module", "ClassDef", "FunctionDef"}
    THEN walk(nodes, i + 1, srcFile, acc)
    ELSE IF nodes[i].raises
    THEN [acc EXCEPT !.msgs = Append(@, Msg("docstring problem", srcFile, Kind(nodes[i])))]
    ELSE IF nodes[i].doc.raw = 0
    THEN walk(nodes, i + 1, srcFile, acc)
    ELSE walk(nodes, i + 1, srcFile,
            [acc EXCEPT !.incoming = @ + nodes[i].doc.raw,
                        !.chunks = put(@, StrSec(Kind(nodes[i])), nodes[i].doc)])

\* lines 534-550: one message per line with an odd number of backquotes, and
\* one more when there was any
RECURSIVE oddMsgs(_, _)
oddMsgs(srcFile, k) ==
    IF k = 0 THEN << >>
    ELSE Append(oddMsgs(srcFile, k - 1), Msg("odd number of ticks", srcFile, str(k)))

tickMsgs(srcFile, text) ==
    IF text.odd = 0 THEN << >>
    ELSE Append(oddMsgs(srcFile, text.odd), Msg("No code replacement", srcFile, << >>))

\* lines 556-574 from line i of a chunk on: acc = [words, filtered]
RECURSIVE foldLines(_, _, _, _, _, _)
foldLines(lines, i, srcx, srcFile, name, acc) ==
    IF i > Len(lines) THEN acc
    ELSE IF lines[i] = << >> THEN foldLines(lines, i + 1, srcx, srcFile, name, acc)
    ELSE foldLines(lines, i + 1, srcx, srcFile, name,
            [words |-> recordLine(acc.words, lines[i], srcx, srcFile, name),
             filtered |-> acc.filtered + 1])

\* lines 518-574 from chunk i on: acc = [words, filtered, msgs]
RECURSIVE foldChunks(_, _, _, _, _)
foldChunks(chunks, i, srcx, srcFile, acc) ==
    IF i > Len(chunks) THEN acc
    ELSE LET c == chunks[i]
             r == foldLines(c.text.lines, 1, srcx, srcFile, c.name,
                            [words |-> acc.words, filtered |-> acc.filtered])
         IN  foldChunks(chunks, i + 1, srcx, srcFile,
                [words |-> r.words, filtered |-> r.filtered,
                 msgs |-> acc.msgs \o tickMsgs(srcFile, c.text)])

\* What operation(srcx, srcFile) does on a file of this content: raised says
\* that an exception leaves it (nbRead, line 457, is not in a try), returned
\* is (incoming, filtered), words the index after it, msgs what it appends to
\* messages[srcx].
Raised(ws) == [raised |-> TRUE, incoming |-> 0, filtered |-> 0, words |-> ws, msgs |-> << >>]

\* lines 447-514: the chunks of a file that could be read and parsed
extract(srcFile, content) ==
    IF endswith(srcFile, MdSuffix) THEN extractMd(content)
    ELSE IF endswith(srcFile, IpynbSuffix) THEN extractCells(content.cells, 1, NoChunks)
    ELSE walk(content.nodes, 1, srcFile, NoChunks)

operation(ws, srcx, srcFile, content) ==
    LET isPy == endswith(srcFile, PySuffix)
        isMd == endswith(srcFile, MdSuffix)
        isIpynb == endswith(srcFile, IpynbSuffix)
        ext == extract(srcFile, content)
        r == foldChunks(ext.chunks, 1, srcx, srcFile,
                        [words |-> ws, filtered |-> 0, msgs |-> ext.msgs])
    IN  IF ~isPy /\ ~isMd /\ ~isIpynb
        THEN [raised |-> FALSE, incoming |-> 0, filtered |-> 0, words |-> ws, msgs |-> << >>]
        ELSE IF isIpynb /\ ~content.ok THEN Raised(ws)
        ELSE IF isPy /\ ~content.ok
        THEN [raised |-> FALSE, incoming |-> 0, filtered |-> 0, words |-> ws,
              msgs |-> << Msg("could not parse", srcFile, << >>) >>]
        ELSE [raised |-> FALSE, incoming |-> ext.incoming, filtered |-> r.filtered,
              words |-> r.words, msgs |-> r.msgs]

\* The contents a file of this name may have
Contents(srcFile) ==
    IF endswith(srcFile, MdSuffix) THEN MdContents
    ELSE IF endswith(srcFile, IpynbSuffix) THEN IpynbContents
    ELSE PyContents

(***************************************************************************)
(* Spell.check (lines 578-596).  symspell maps a word to the list lookup   *)
(* returns (Verbosity.TOP: at most one term); wrong is the dict self.wrong *)
(* in insertion order, a sequence of [word, corr].                         *)
(***************************************************************************)
Identity == [w \in {Teh, teh, the, qzx, Zoo} |-> << w >>]
DictA == [Identity EXCEPT ![Teh] = << the >>, ![teh] = << the >>, ![qzx] = << >>]
DictB == [Identity EXCEPT ![Zoo] = << >>, ![the] = << teh >>, ![qzx] = << XX >>]
Dictionaries == { DictA, DictB }

AllowLists == { {}, {Teh, qzx} }

lookup(dict, word) == dict[word]

\* lines 585-596 for the words of ws from position i of sorted(words) on
RECURSIVE checkFrom(_, _, _, _, _)
checkFrom(order, i, allowList, dict, acc) ==
    IF i > Len(order) THEN acc
    ELSE LET word == order[i]
             suggestions == lookup(dict, word)
             corr == IF Len(suggestions) = 0 THEN XX ELSE suggestions[1]
         IN  IF word \in allowList THEN checkFrom(order, i + 1, allowList, dict, acc)
             ELSE IF Len(suggestions) = 0 \/ word # corr
             THEN checkFrom(order, i + 1, allowList, dict,
                            Append(acc, [word |-> word, corr |-> corr]))
             ELSE checkFrom(order, i + 1, allowList, dict, acc)

\* A faulty variant of check: the allow-list is not consulted
checkIgnoresAllowList(ws, allowList, dict) ==
    checkFrom(sorted(DOMAIN ws, StrLess), 1, {}, dict, << >>)

\* lines 578-596
check(ws, allowList, dict) ==
    checkFrom(sorted(DOMAIN ws, StrLess), 1, allowList, dict, << >>)

(***************************************************************************)
(* Spell.deliver and Spell.deliverOccs (lines 598-629).  A report is the   *)
(* sequence of its lines, each written with its "\n"; the blank line of    *)
(* line 613 is the empty string.  NoSrcx is None.                          *)
(***************************************************************************)
NoSrcx == << "N", "o", "n", "e" >>

\* sorted(wrong, key=lambda x: x.lower()): stable, so equal keys keep the order
\* of the dict
KeyOrder(wr) ==
    LET Less(i, j) == \/ StrLess(lower(wr[i].word), lower(wr[j].word))
                      \/ (lower(wr[i].word) = lower(wr[j].word) /\ i < j)
    IN  sorted(1..Len(wr), Less)

\* line 625-627
occLine(word, fl, name) == word \o << "|" >> \o fl \o << "|" >> \o SecField(name)

\* line 620
sepLine(srcx) == << "=" >> \o srcx

\* lines 624-627 for the names of one file, sorted
nameLines(word, fl, names) ==
    LET order == sorted(names, SecLess)
    IN  [k \in 1..Len(order) |-> occLine(word, fl, order[k])]

\* lines 623-627 for the files of one task: sorted(info.items())
RECURSIVE fileLines(_, _, _, _)
fileLines(word, info, order, k) ==
    IF k > Len(order) THEN << >>
    ELSE nameLines(word, order[k], info[order[k]]) \o fileLines(word, info, order, k + 1)

\* A faulty variant of newTask: a separator before every file group
newTaskAlways(srcx, lastSrcx) == TRUE
\* line 619
newTask(srcx, lastSrcx) == srcx # lastSrcx

\* lines 618-629 from task k of occs on: acc = [lines, lastSrcx]
RECURSIVE deliverOccs(_, _, _, _)
deliverOccs(word, occs, k, acc) ==
    IF k > Len(occs) THEN acc
    ELSE LET srcx == occs[k].srcx
             info == occs[k].info
             sep == IF newTask(srcx, acc.lastSrcx) THEN << sepLine(srcx) >> ELSE << >>
         IN  deliverOccs(word, occs, k + 1,
                [lines |-> acc.lines \o sep
                           \o fileLines(word, info, sorted(DOMAIN info, StrLess), 1),
                 lastSrcx |-> srcx])

\* line 612
summaryLine(word, corr) == word

\* lines 610-612 from position k of the sorted wrong words on:
\* acc = [summary, lines, lastSrcx]
RECURSIVE deliverFrom(_, _, _, _, _)
deliverFrom(ws, wr, order, k, acc) ==
    IF k > Len(order) THEN acc
    ELSE LET word == wr[order[k]].word
             r == deliverOccs(word, ws[word], 1,
                              [lines |-> acc.lines, lastSrcx |-> acc.lastSrcx])
         IN  deliverFrom(ws, wr, order, k + 1,
                [summary |-> Append(acc.summary, summaryLine(word, wr[order[k]].corr)),
                 lines |-> r.lines, lastSrcx |-> r.lastSrcx])

deliver(ws, wr) ==
    LET r == deliverFrom(ws, wr, KeyOrder(wr), 1,
                         [summary |-> << >>, lines |-> << >>, lastSrcx |-> NoSrcx])
    IN  [summary |-> r.summary, locations |-> Append(r.lines, << >>),
         lastSrcx |-> r.lastSrcx]

(***************************************************************************)
(* Regular expressions, as Python's re module matches them.  A pattern is  *)
(* a sequence of atoms; an atom is a character class with a repetition     *)
(* (min..max times, max 0 for no limit, greedy or lazy) or an anchor.      *)
(* Match follows the backtracking order of re: a greedy atom tries the     *)
(* longest run first, a lazy one the shortest, the first alternative of    *)
(* (?:a|b) before the second.                                              *)
(***************************************************************************)
Cls(set, neg, min, max, lazy) ==
    [kind |-> "cls", set |-> set, neg |-> neg, min |-> min, max |-> max, lazy |-> lazy]
Anchor(kind) == [kind |-> kind, set |-> {}, neg |-> FALSE, min |-> 0, max |-> 0, lazy |-> FALSE]

Lit(c) == Cls({c}, FALSE, 1, 1, FALSE)
Space == { " ", "\n", "\t", "\r", "\f" }

In(c, a) == (c \in a.set) # a.neg

AtBol(text, pos) == pos = 1 \/ text[pos - 1] = "\n"           \* ^ with re.M
AtEol(text, pos) == pos = Len(text) + 1 \/ text[pos] = "\n"   \* $ with re.M
\* $ without re.M: the end, or before a newline that ends the string
AtEos(text, pos) == pos = Len(text) + 1 \/ (pos = Len(text) /\ text[pos] = "\n")

\* The longest run of characters of the class from pos on, within the atom's max
Run(text, a, pos) ==
    LET cap == IF a.max = 0 \/ a.max > Len(text) - pos + 1
               THEN Len(text) - pos + 1 ELSE a.max
    IN  CHOOSE j \in 0..cap :
            /\ \A i \in pos..(pos + j - 1) : In(text[i], a)
            /\ (j = cap \/ ~In(text[pos + j], a))

\* Match(text, atoms, k, pos): the atoms from the k-th on match at pos.  The
\* result is the sequence of the positions where each of these atoms starts,
\* then the position after the match; the empty sequence when there is no match.
RECURSIVE Match(_, _, _, _)
RECURSIVE TryCount(_, _, _, _, _, _)
Match(text, atoms, k, pos) ==
    IF k > Len(atoms) THEN << pos >>
    ELSE LET a == atoms[k]
             rest(p) == LET r == Match(text, atoms, k + 1, p)
                        IN  IF Len(r) = 0 THEN << >> ELSE << pos >> \o r
         IN  CASE a.kind = "cls" ->
                    LET hi == Run(text, a, pos)
                    IN  IF hi < a.min THEN << >>
                        ELSE TryCount(text, atoms, k, pos, IF a.lazy THEN a.min ELSE hi, hi)
               [] a.kind = "bol" -> IF AtBol(text, pos) THEN rest(pos) ELSE << >>
               [] a.kind = "eol" -> IF AtEol(text, pos) THEN rest(pos) ELSE << >>
               [] a.kind = "eos" -> IF AtEos(text, pos) THEN rest(pos) ELSE << >>
               [] a.kind = "bolq" ->     \* (?:^|")
                    LET r1 == IF AtBol(text, pos) THEN rest(pos) ELSE << >>
                    IN  IF Len(r1) > 0 THEN r1
                        ELSE IF pos <= Len(text) /\ text[pos] = "\"" THEN rest(pos + 1)
                        ELSE << >>
               [] a.kind = "eoln" ->     \* (?:$|\\n)
                    LET r1 == IF AtEol(text, pos) THEN rest(pos) ELSE << >>
                    IN  IF Len(r1) > 0 THEN r1
                        ELSE IF pos + 1 <= Len(text) /\ text[pos] = "\\" /\ text[pos + 1] = "n"
                        THEN rest(pos + 2)
                        ELSE << >>

TryCount(text, atoms, k, pos, c, hi) ==
    IF c < atoms[k].min \/ c > hi THEN << >>
    ELSE LET r == Match(text, atoms, k + 1, pos + c)
         IN  IF Len(r) > 0 THEN << pos >> \o r
             ELSE TryCount(text, atoms, k, pos, IF atoms[k].lazy THEN c + 1 ELSE c - 1, hi)

MatchEnd(m) == m[Len(m)]

\* pattern.match(text): a match at the start
match(atoms, text) == Len(Match(text, atoms, 1, 1)) > 0

\* The matches pattern.sub replaces: leftmost first, not overlapping.  (No
\* pattern of this file matches the empty string.)
RECURSIVE finditer(_, _, _)
finditer(atoms, text, from) ==
    IF from > Len(text) THEN << >>
    ELSE LET m == Match(text, atoms, 1, from)
         IN  IF Len(m) = 0 \/ MatchEnd(m) = from THEN finditer(atoms, text, from + 1)
             ELSE << m >> \o finditer(atoms, text, MatchEnd(m))

\* match.group: the text of the atoms g1..g2 of a match
group(text, m, g1, g2) == SubSeq(text, m[g1], m[g2 + 1] - 1)

\* The text with match i replaced by repl[i], from match i and position pos on
RECURSIVE splice(_, _, _, _, _)
splice(text, ms, repl, i, pos) ==
    IF i > Len(ms) THEN SubSeq(text, pos, Len(text))
    ELSE SubSeq(text, pos, ms[i][1] - 1) \o repl[i]
            \o splice(text, ms, repl, i + 1, MatchEnd(ms[i]))

\* pattern.sub(repl, text) for a fixed string repl
sub(atoms, repl, text) ==
    LET ms == finditer(atoms, text, 1)
    IN  splice(text, ms, [i \in 1..Len(ms) |-> repl], 1, 1)

\* str.count(c)
count(text, c) == Cardinality({ i \in 1..Len(text) : text[i] = c })

\* str.split("\n")
RECURSIVE split(_)
split(text) ==
    IF \A i \in 1..Len(text) : text[i] # "\n" THEN << text >>
    ELSE LET i == CHOOSE j \in 1..Len(text) :
                      text[j] = "\n" /\ \A h \in 1..(j - 1) : text[h] # "\n"
         IN  << SubSeq(text, 1, i - 1) >> \o split(SubSeq(text, i + 1, Len(text)))

\* str.strip()
RECURSIVE strip(_)
strip(text) ==
    IF Len(text) = 0 THEN text
    ELSE IF text[1] \in Space THEN strip(Tail(text))
    ELSE IF text[Len(text)] \in Space THEN strip(SubSeq(text, 1, Len(text) - 1))
    ELSE text

(***************************************************************************)
(* The patterns of lines 97-238 that the modelled texts can match.         *)
(***************************************************************************)
\* TTTICK_RE = ```.*?``` with re.S
TTTICK_RE == << Lit(TICK), Lit(TICK), Lit(TICK), Cls({}, TRUE, 0, 0, TRUE),
                Lit(TICK), Lit(TICK), Lit(TICK) >>
\* TTICK_RE = ``[^`\n]*``
TTICK_RE == << Lit(TICK), Lit(TICK), Cls({TICK, "\n"}, TRUE, 0, 0, FALSE), Lit(TICK), Lit(TICK) >>
\* TICK_RE = `[^`]*`
TICK_RE == << Lit(TICK), Cls({TICK}, TRUE, 0, 0, FALSE), Lit(TICK) >>
\* ALINK_RE = \[[^]]+\]\[[^]]+\]
ALINK_RE == << Lit("["), Cls({"]"}, TRUE, 1, 0, FALSE), Lit("]"),
               Lit("["), Cls({"]"}, TRUE, 1, 0, FALSE), Lit("]") >>
\* ILINK_RE = !\[[^]]+\]\([^)]+\)
ILINK_RE == << Lit("!"), Lit("["), Cls({"]"}, TRUE, 1, 0, FALSE), Lit("]"),
               Lit("("), Cls({")"}, TRUE, 1, 0, FALSE), Lit(")") >>
\* LINK_RE = \[([^]]+)\]\([^)]+\): the group is atom 2
LINK_RE == << Lit("["), Cls({"]"}, TRUE, 1, 0, FALSE), Lit("]"),
              Lit("("), Cls({")"}, TRUE, 1, 0, FALSE), Lit(")") >>
\* HEADING_RE = (?:^|")#+\s+(.*?)\s*(?:$|\\n) with re.M: the group is atom 4
HEADING_RE == << Anchor("bolq"), Cls({"#"}, FALSE, 1, 0, FALSE), Cls(Space, FALSE, 1, 0, FALSE),
                 Cls({"\n"}, TRUE, 0, 0, TRUE), Cls(Space, FALSE, 0, 0, FALSE),
                 Anchor("eoln") >>
\* PNAME_RE = ^[a-zA-Z0-9~_.()-]+$
NameChars == UpperSet \cup LowerSet \cup DigitSet \cup { "~", "_", ".", "(", ")", "-" }
PNAME_RE == << Anchor("bol"), Cls(NameChars, FALSE, 1, 0, FALSE), Anchor("eos") >>
\* WORD_RE = \w+
WordChars == UpperSet \cup LowerSet \cup DigitSet \cup { "_" }
WORD_RE == << Cls(WordChars, FALSE, 1, 0, FALSE) >>

HEAD == << " ", "H", "E", "A", "D", " " >>
LINK == << " ", "L", "I", "N", "K", " " >>
ILINK == << "L", "I", "N", "K", " " >>
CODE == << " ", "C", "O", "D", "E", " " >>
CODEBLOCK == << "\n", "C", "O", "D", "E", "\n" >>

\* lines 226-229
linkRepl(body) == IF match(PNAME_RE, body) THEN LINK ELSE body

\* The converse of headRepl
headReplKeepsNames(title) == IF match(PNAME_RE, title) THEN title ELSE HEAD
\* lines 232-235
headRepl(title) == IF match(PNAME_RE, title) THEN HEAD ELSE title

\* re.findall on one line, for WORD_RE
findall(atoms, line) ==
    LET ms == finditer(atoms, line, 1)
    IN  [i \in 1..Len(ms) |-> SubSeq(line, ms[i][1], MatchEnd(ms[i]) - 1)]

(***************************************************************************)
(* The substitutions of Spell.operation on the text of one chunk (lines    *)
(* 519-574), for texts over NormChars.  The other patterns of lines        *)
(* 520-554 need a character that is not in NormChars ("<", ":", "$", "{",  *)
(* "\", "«", or the letters of "http") and leave these texts as they are.  *)
(***************************************************************************)
\* line 523
subHeading(text) ==
    LET ms == finditer(HEADING_RE, text, 1)
    IN  splice(text, ms, [i \in 1..Len(ms) |-> headRepl(group(text, ms[i], 4, 4))], 1, 1)

\* line 526
subLink(text) ==
    LET ms == finditer(LINK_RE, text, 1)
    IN  splice(text, ms, [i \in 1..Len(ms) |-> linkRepl(group(text, ms[i], 2, 2))], 1, 1)

\* A faulty variant of oddLines: the backquotes of the whole text are counted
oddLinesOfWholeText(text) == IF count(text, TICK) % 2 = 1 THEN {1} ELSE {}
\* lines 536-538: the lines (from 1) with an odd number of backquotes
oddLines(text) ==
    LET lines == split(text)
    IN  { i \in 1..Len(lines) : count(lines[i], TICK) % 2 = 1 }

\* lines 540-542 and 548-550: the messages of the balance check
tickMessages(text) ==
    LET odd == sorted(oddLines(text), <)
    IN  IF Len(odd) = 0 THEN << >>
        ELSE Append([k \in 1..Len(odd) |-> Msg("odd number of ticks", << >>, str(odd[k]))],
                    Msg("No code replacement", << >>, << >>))

\* lines 544-546
subTicks(text) ==
    IF oddLines(text) = {} THEN sub(TICK_RE, CODE, sub(TTICK_RE, CODE, text))
    ELSE text

\* lines 556-574: the words of the text that are recorded, and the count of
\* the lines that are not blank
tokenize(text) ==
    LET lines == split(text)
        kept == { i \in 1..Len(lines) : strip(lines[i]) # << >> }
    IN  [filtered |-> Cardinality(kept),
         words |-> UNION { { w \in Range(findall(WORD_RE, strip(lines[i]))) : ~Excluded(w) }
                           : i \in kept }]

(***************************************************************************)
(* The run: Spell.__init__ and Spell.checkAll (lines 245-428).             *)
(***************************************************************************)
VARIABLES
    pc,          \* where checkAll is; "... raised" after an exception left it
    givenTask,   \* self.task: 0 is None
    allowed,     \* self.allowed
    symspell,    \* self.symspell, as the answers of lookup
    tasks,       \* the list of line 307
    t,           \* the loop index of line 310, plus one
    task,        \* the loop variable of line 310
    srcx,        \* line 315
    srcFiles,    \* line 327
    fi,          \* the position in srcFiles of the loop of line 342
    incoming,    \* line 338
    filtered,    \* line 339
    totals,      \* filesTotal, incomingTotal, filteredTotal
    selfTasks,   \* self.tasks
    stats,       \* self.stats
    words,       \* self.words
    wrong,       \* self.wrong
    messages,    \* self.messages
    summary,     \* the lines of summary.txt
    locations,   \* the lines of locations.txt
    lastSrcx,    \* self.lastSrcx
    rows,        \* the rows of the table printed so far (lines 383-417)
    lastOp       \* the file and content of the last call of operation

runVars == << pc, givenTask, allowed, symspell, tasks, t, task, srcx, srcFiles, fi,
              incoming, filtered, totals, selfTasks, stats, words, wrong, messages,
              summary, locations, lastSrcx, rows, lastOp >>

\* One chunk in the loop body of lines 518-574, a substitution at a time
VARIABLES
    stage,       \* the substitution that is next
    text,        \* the variable text of lines 519-556
    diag,        \* the messages appended for this chunk
    toks         \* the result of lines 556-574: the lines counted, the words recorded

normVars == << stage, text, diag, toks >>

vars == << runVars, normVars >>

NoToks == [filtered |-> 0, words |-> {}]

NormIdle == stage = "idle" /\ text = << >> /\ diag = << >> /\ toks = NoToks

\* The lines tasks.txt may hold
TildeA == << "~", "/", "a" >>
TildeASlash == << "~", "/", "a", "/" >>
RelB == << "b" >>
AbsD == << "/", "d" >>
TildeX == << "~", "/", "x" >>
Comment == << "#", "c" >>
TaskLines == { TildeA, TildeASlash, RelB, AbsD, TildeX, Comment }

RECURSIVE SeqsUpTo(_, _)
SeqsUpTo(S, n) ==
    IF n = 0 THEN { << >> }
    ELSE LET shorter == SeqsUpTo(S, n - 1)
         IN  shorter \cup { Append(q, x) : q \in shorter, x \in S }

TaskFiles == SeqsUpTo(TaskLines, MaxTasks)

TOTAL == << "T", "O", "T", "A", "L" >>

\* a dict of statistics: {} is one that is not filled
EmptyStats == [filled |-> FALSE, files |-> 0, incoming |-> 0, filtered |-> 0]
Stats(f, i, fl) == [filled |-> TRUE, files |-> f, incoming |-> i, filtered |-> fl]

NoOp == [srcx |-> << >>, srcFile |-> << >>, content |-> NoDoc]

\* d[key] = value on a dict held as a function
Assign(d, key, value) == [k \in DOMAIN d \cup {key} |-> IF k = key THEN value ELSE d[k]]

\* messages.setdefault(key, []).append(msg) for the messages of msgs in turn
appendAll(d, key, msgs) ==
    IF Len(msgs) = 0 THEN d
    ELSE Assign(d, key, (IF key \in DOMAIN d THEN d[key] ELSE << >>) \o msgs)

\* lines 245-282: the state after construction
Init ==
    /\ NormIdle
    /\ pc = "start"
    /\ givenTask \in 0..MaxTasks
    /\ allowed \in AllowLists
    /\ symspell \in Dictionaries
    /\ tasks = << >>
    /\ t = 1
    /\ task = << >>
    /\ srcx = << >>
    /\ srcFiles = << >>
    /\ fi = 1
    /\ incoming = 0
    /\ filtered = 0
    /\ totals = Stats(0, 0, 0)
    /\ selfTasks = << >>
    /\ stats = << >>
    /\ words = << >>
    /\ wrong = << >>
    /\ messages = << >>
    /\ summary = << >>
    /\ locations = << >>
    /\ lastSrcx = NoSrcx
    /\ rows = << >>
    /\ lastOp = NoOp

\* lines 300-302: there is no tasks.txt
NoTaskFile ==
    /\ pc = "start"
    /\ pc' = "nothing to do"
    /\ UNCHANGED << givenTask, allowed, symspell, tasks, t, task, srcx, srcFiles, fi,
                    incoming, filtered, totals, selfTasks, stats, words, wrong,
                    messages, summary, locations, lastSrcx, rows, lastOp >>
    /\ UNCHANGED normVars

\* lines 306-308: the lines of tasks.txt that are no comments
ReadTasks ==
    /\ pc = "start"
    /\ \E lines \in TaskFiles :
          tasks' = SelectSeq(lines, LAMBDA x : ~startswith(x, << "#" >>))
    /\ pc' = "loop"
    /\ UNCHANGED << givenTask, allowed, symspell, t, task, srcx, srcFiles, fi,
                    incoming, filtered, totals, selfTasks, stats, words, wrong,
                    messages, summary, locations, lastSrcx, rows, lastOp >>
    /\ UNCHANGED normVars

\* lines 311-312: not the task asked for
SkipTask ==
    /\ pc = "loop" /\ t <= Len(tasks)
    /\ givenTask # 0 /\ t # givenTask
    /\ t' = t + 1
    /\ UNCHANGED << pc, givenTask, allowed, symspell, tasks, task, srcx, srcFiles, fi,
                    incoming, filtered, totals, selfTasks, stats, words, wrong,
                    messages, summary, locations, lastSrcx, rows, lastOp >>
    /\ UNCHANGED normVars

\* line 314
Src(tk) == removesuffix(abspath(ex(tk)), << "/" >>)

\* lines 314-325: the task is no existing file or directory
MissingTask ==
    /\ pc = "loop" /\ t <= Len(tasks)
    /\ ~(givenTask # 0 /\ t # givenTask)
    /\ ~(isFile(Src(tasks[t])) \/ isDir(Src(tasks[t])))
    /\ task' = tasks[t]
    /\ srcx' = ux(Src(tasks[t]))
    /\ stats' = Assign(stats, tasks[t], EmptyStats)
    /\ messages' = appendAll(messages, tasks[t],
                             << Msg("not an existing file or directory", << >>, << >>) >>)
    /\ t' = t + 1
    /\ UNCHANGED << pc, givenTask, allowed, symspell, tasks, srcFiles, fi,
                    incoming, filtered, totals, selfTasks, words, wrong,
                    summary, locations, lastSrcx, rows, lastOp >>
    /\ UNCHANGED normVars

\* lines 327-332: the files of the directory that qualify, relative to src
Qualifies(x) == endswith(x, PySuffix) \/ endswith(x, IpynbSuffix) \/ endswith(x, MdSuffix)

SrcFiles(src, found) ==
    LET full == [k \in 1..Len(found) |-> src \o << "/" >> \o found[k]]
        kept == SelectSeq(full, Qualifies)
    IN  [k \in 1..Len(kept) |-> removeprefix(removeprefix(kept[k], src), << "/" >>)]

\* What dirAllFiles may find: at most MaxFiles of the names of DirFiles, in order
Listings ==
    { SelectSeq(DirFiles, LAMBDA x : x \in S) :
        S \in { S \in SUBSET Range(DirFiles) : Cardinality(S) <= MaxFiles } }

\* lines 314-340: the task exists
StartTask ==
    /\ pc = "loop" /\ t <= Len(tasks)
    /\ ~(givenTask # 0 /\ t # givenTask)
    /\ isFile(Src(tasks[t])) \/ isDir(Src(tasks[t]))
    /\ task' = tasks[t]
    /\ srcx' = ux(Src(tasks[t]))
    /\ stats' = Assign(stats, tasks[t], EmptyStats)
    /\ \E found \in Listings : srcFiles' = SrcFiles(Src(tasks[t]), found)
    /\ selfTasks' = Append(selfTasks, ux(Src(tasks[t])))
    /\ incoming' = 0
    /\ filtered' = 0
    /\ fi' = 1
    /\ pc' = "files"
    /\ UNCHANGED << givenTask, allowed, symspell, tasks, t, totals, words, wrong,
                    messages, summary, locations, lastSrcx, rows, lastOp >>
    /\ UNCHANGED normVars

\* lines 342-345, one file: operation returns
Operation ==
    /\ pc = "files" /\ fi <= Len(srcFiles)
    /\ \E content \in Contents(srcFiles[fi]) :
          LET r == operation(words, srcx, srcFiles[fi], content)
          IN  /\ ~r.raised
              /\ words' = r.words
              /\ messages' = appendAll(messages, srcx, r.msgs)
              /\ incoming' = incoming + r.incoming
              /\ filtered' = filtered + r.filtered
              /\ lastOp' = [srcx |-> srcx, srcFile |-> srcFiles[fi], content |-> content]
    /\ fi' = fi + 1
    /\ UNCHANGED << pc, givenTask, allowed, symspell, tasks, t, task, srcx, srcFiles,
                    totals, selfTasks, stats, wrong, summary, locations, lastSrcx, rows >>
    /\ UNCHANGED normVars

\* lines 342-343, one file: an exception leaves operation, and nothing catches it
OperationRaises ==
    /\ pc = "files" /\ fi <= Len(srcFiles)
    /\ \E content \in Contents(srcFiles[fi]) :
          /\ operation(words, srcx, srcFiles[fi], content).raised
          /\ lastOp' = [srcx |-> srcx, srcFile |-> srcFiles[fi], content |-> content]
    /\ pc' = "operation raised"
    /\ UNCHANGED << givenTask, allowed, symspell, tasks, t, task, srcx, srcFiles, fi,
                    incoming, filtered, totals, selfTasks, stats, words, wrong,
                    messages, summary, locations, lastSrcx, rows >>
    /\ UNCHANGED normVars

\* lines 347-353
EndTask ==
    /\ pc = "files" /\ fi > Len(srcFiles)
    /\ stats' = Assign(stats, task, Stats(Len(srcFiles), incoming, filtered))
    /\ totals' = Stats(totals.files + Len(srcFiles), totals.incoming + incoming,
                       totals.filtered + filtered)
    /\ t' = t + 1
    /\ pc' = "loop"
    /\ UNCHANGED << givenTask, allowed, symspell, tasks, task, srcx, srcFiles, fi,
                    incoming, filtered, selfTasks, words, wrong, messages,
                    summary, locations, lastSrcx, rows, lastOp >>
    /\ UNCHANGED normVars

\* lines 355-362
Total ==
    /\ pc = "loop" /\ t > Len(tasks)
    /\ stats' = Assign(stats, TOTAL, totals)
    /\ pc' = "check"
    /\ UNCHANGED << givenTask, allowed, symspell, tasks, t, task, srcx, srcFiles, fi,
                    incoming, filtered, totals, selfTasks, words, wrong, messages,
                    summary, locations, lastSrcx, rows, lastOp >>
    /\ UNCHANGED normVars

\* line 367
Check ==
    /\ pc = "check"
    /\ wrong' = check(words, allowed, symspell)
    /\ pc' = "deliver"
    /\ UNCHANGED << givenTask, allowed, symspell, tasks, t, task, srcx, srcFiles, fi,
                    incoming, filtered, totals, selfTasks, stats, words, messages,
                    summary, locations, lastSrcx, rows, lastOp >>
    /\ UNCHANGED normVars

\* line 371
Deliver ==
    /\ pc = "deliver"
    /\ LET r == deliver(words, wrong)
       IN  /\ summary' = r.summary
           /\ locations' = r.locations
           /\ lastSrcx' = r.lastSrcx
    /\ pc' = "render"
    /\ UNCHANGED << givenTask, allowed, symspell, tasks, t, task, srcx, srcFiles, fi,
                    incoming, filtered, totals, selfTasks, stats, words, wrong,
                    messages, rows, lastOp >>
    /\ UNCHANGED normVars

\* lines 389-411: the counts of one row
InfoOf(occs, tk) == occs[CHOOSE k \in TaskPos(occs, tk) : TRUE].info

SumSeq(q, F(_)) ==
    LET G[k \in 0..Len(q)] == IF k = 0 THEN 0 ELSE G[k - 1] + F(q[k])
    IN  G[Len(q)]

FilesOf(info) ==
    LET fs == sorted(DOMAIN info, StrLess)
    IN  SumSeq(fs, LAMBDA f : Cardinality(info[f]))

WrongWords(wr) == { wr[k].word : k \in 1..Len(wr) }

Counted(ws, tk, isTotal) ==
    { w \in DOMAIN ws : isTotal \/ TaskPos(ws[w], tk) # {} }

Locations(ws, wr, tk, isTotal) ==
    LET cs == sorted(Counted(ws, tk, isTotal) \cap WrongWords(wr), StrLess)
    IN  SumSeq(cs, LAMBDA w :
            IF isTotal THEN SumSeq(ws[w], LAMBDA o : FilesOf(o.info))
            ELSE FilesOf(InfoOf(ws[w], tk)))

\* lines 383-417 for row i (from 1): the row printed
Row(i, tk, st, ws, wr) ==
    LET isTotal == tk = TOTAL
    IN  [n |-> IF isTotal THEN 0 ELSE i,
         task |-> tk,
         files |-> st.files, incoming |-> st.incoming, filtered |-> st.filtered,
         all |-> Cardinality(Counted(ws, tk, isTotal)),
         wrongs |-> Cardinality(Counted(ws, tk, isTotal) \cap WrongWords(wr)),
         occs |-> Locations(ws, wr, tk, isTotal)]

\* line 383
RowTasks == Append(selfTasks, TOTAL)

\* lines 384-385: stats[task] and theseStats["files"] are there
HasStats(tk) == tk \in DOMAIN stats /\ stats[tk].filled

\* lines 383-417, one row
RenderRow ==
    /\ pc = "render" /\ Len(rows) < Len(RowTasks)
    /\ LET i == Len(rows) + 1
       IN  /\ HasStats(RowTasks[i])
           /\ rows' = Append(rows, Row(i, RowTasks[i], stats[RowTasks[i]], words, wrong))
    /\ UNCHANGED << pc, givenTask, allowed, symspell, tasks, t, task, srcx, srcFiles, fi,
                    incoming, filtered, totals, selfTasks, stats, words, wrong,
                    messages, summary, locations, lastSrcx, lastOp >>
    /\ UNCHANGED normVars

\* lines 384-385, one row: a KeyError leaves checkAll
RenderRaises ==
    /\ pc = "render" /\ Len(rows) < Len(RowTasks)
    /\ ~HasStats(RowTasks[Len(rows) + 1])
    /\ pc' = "table raised"
    /\ UNCHANGED << givenTask, allowed, symspell, tasks, t, task, srcx, srcFiles, fi,
                    incoming, filtered, totals, selfTasks, stats, words, wrong,
                    messages, summary, locations, lastSrcx, rows, lastOp >>
    /\ UNCHANGED normVars

\* lines 419-428
Finish ==
    /\ pc = "render" /\ Len(rows) = Len(RowTasks)
    /\ pc' = "done"
    /\ UNCHANGED << givenTask, allowed, symspell, tasks, t, task, srcx, srcFiles, fi,
                    incoming, filtered, totals, selfTasks, stats, words, wrong,
                    messages, summary, locations, lastSrcx, rows, lastOp >>
    /\ UNCHANGED normVars

Next ==
    \/ NoTaskFile
    \/ ReadTasks
    \/ SkipTask
    \/ MissingTask
    \/ StartTask
    \/ Operation
    \/ OperationRaises
    \/ EndTask
    \/ Total
    \/ Check
    \/ Deliver
    \/ RenderRow
    \/ RenderRaises
    \/ Finish

Spec == Init /\ [][Next]_vars

(***************************************************************************)
(* The chunk texts of SpecNorm.  They are written in the characters of      *)
(* NormChars.  The substitutions of lines 520-522, 527, 529-532 and 552-554 *)
(* (comments, elements, ::: lines, URLs, math, braces, symbols) need a      *)
(* character that is not among them and leave these texts as they are, so   *)
(* SpecNorm has the steps of lines 523-526, 528, 534-550 and 556-574.       *)
(***************************************************************************)
MaxTickLen == 6
MaxHeadLen == 4
MaxBodyLen == 2

TickChars == { TICK, "a", "\n" }
HeadChars == { "#", " ", "a", "!", "\n" }
BodyChars == { "a", " ", "!" }
NormChars == TickChars \cup HeadChars \cup BodyChars \cup { "[", "]", "(", ")" }

LinkTexts ==
    { pre \o << "[" >> \o body \o << "]", "(" >> \o url \o << ")" >> \o post :
        pre \in { << >>, << "!" >>, << "a" >> },
        body \in SeqsUpTo(BodyChars, MaxBodyLen),
        url \in { << >>, << "a" >> },
        post \in { << >>, << "[", "a", "!", "]", "(", "a", ")" >>,
                   << "[", "a", "]", "[", "a", "]" >> } }

NormTexts ==
    SeqsUpTo(TickChars, MaxTickLen) \cup SeqsUpTo(HeadChars, MaxHeadLen) \cup LinkTexts

InitNorm ==
    /\ stage = "heading"
    /\ text \in NormTexts
    /\ diag = << >>
    /\ toks = NoToks
    /\ pc = "idle"
    /\ givenTask = 0
    /\ allowed = {}
    /\ symspell = DictA
    /\ tasks = << >>
    /\ t = 1
    /\ task = << >>
    /\ srcx = << >>
    /\ srcFiles = << >>
    /\ fi = 1
    /\ incoming = 0
    /\ filtered = 0
    /\ totals = Stats(0, 0, 0)
    /\ selfTasks = << >>
    /\ stats = << >>
    /\ words = << >>
    /\ wrong = << >>
    /\ messages = << >>
    /\ summary = << >>
    /\ locations = << >>
    /\ lastSrcx = NoSrcx
    /\ rows = << >>
    /\ lastOp = NoOp

\* line 523
Heading ==
    /\ stage = "heading"
    /\ text' = subHeading(text)
    /\ stage' = "alink"
    /\ UNCHANGED << diag, toks >>
    /\ UNCHANGED runVars

\* line 524
ALink ==
    /\ stage = "alink"
    /\ text' = sub(ALINK_RE, LINK, text)
    /\ stage' = "ilink"
    /\ UNCHANGED << diag, toks >>
    /\ UNCHANGED runVars

\* line 525
ILink ==
    /\ stage = "ilink"
    /\ text' = sub(ILINK_RE, ILINK, text)
    /\ stage' = "link"
    /\ UNCHANGED << diag, toks >>
    /\ UNCHANGED runVars

\* line 526
Link ==
    /\ stage = "link"
    /\ text' = subLink(text)
    /\ stage' = "fence"
    /\ UNCHANGED << diag, toks >>
    /\ UNCHANGED runVars

\* line 528
Fence ==
    /\ stage = "fence"
    /\ text' = sub(TTTICK_RE, CODEBLOCK, text)
    /\ stage' = "ticks"
    /\ UNCHANGED << diag, toks >>
    /\ UNCHANGED runVars

\* lines 534-550
Ticks ==
    /\ stage = "ticks"
    /\ text' = subTicks(text)
    /\ diag' = diag \o tickMessages(text)
    /\ stage' = "tokens"
    /\ UNCHANGED toks
    /\ UNCHANGED runVars

\* lines 556-574
Tokenize ==
    /\ stage = "tokens"
    /\ toks' = tokenize(text)
    /\ stage' = "done"
    /\ UNCHANGED << text, diag >>
    /\ UNCHANGED runVars

NextNorm ==
    \/ Heading
    \/ ALink
    \/ ILink
    \/ Link
    \/ Fence
    \/ Ticks
    \/ Tokenize

SpecNorm == InitNorm /\ [][NextNorm]_vars

(***************************************************************************)
(* Properties.                                                             *)
(***************************************************************************)
\* The tuples (word, task, file, section) that the index holds
Tuples(ws) ==
    UNION { UNION { UNION { { << w, ws[w][i].srcx, f, nm >> : nm \in ws[w][i].info[f] }
                            : f \in DOMAIN ws[w][i].info }
                    : i \in 1..Len(ws[w]) }
            : w \in DOMAIN ws }

\* deliver() has run: it ends by writing the blank line of the locations report
Delivered == Len(locations) > 0

Corr(w) == wrong[CHOOSE k \in 1..Len(wrong) : wrong[k].word = w].corr

Arrow == << "=", ">" >>
Bar == << "|" >>

\* C1: after deliver() the summary report has exactly one line per key of the
\* wrong-word map, the line of a word is word=>correction, and the lines are in
\* the case-insensitive order of the words.
C1_SummaryLines ==
    Delivered =>
        /\ Len(summary) = Cardinality(WrongWords(wrong))
        /\ \A w \in WrongWords(wrong) :
              Cardinality({ k \in 1..Len(summary) : summary[k] = w \o Arrow \o Corr(w) }) = 1
        /\ \A k \in 1..(Len(summary) - 1) :
              ~StrLess(lower(summary[k + 1]), lower(summary[k]))

\* C2: after deliver() the locations report has, for every wrong word and every
\* (task, file, section) of it in the index, the line word|correction|file|section
\* (the section as the decimal cell index, the label, or one fallback character
\* for the empty label), and no occurrence line besides these.
SectionText(nm) == IF nm.int THEN str(nm.n) ELSE IF Len(nm.s) > 0 THEN nm.s ELSE << "e" >>

IsSep(line) == Len(line) > 0 /\ line[1] = "="
IsOcc(line) == Len(line) > 0 /\ line[1] # "="
OccLines == { k \in 1..Len(locations) : IsOcc(locations[k]) }
WrongTuples == { tp \in Tuples(words) : tp[1] \in WrongWords(wrong) }

C2_LocationLines ==
    Delivered =>
        /\ \A tp \in WrongTuples :
              \E k \in OccLines :
                  locations[k] = tp[1] \o Bar \o Corr(tp[1]) \o Bar \o tp[3] \o Bar
                                    \o SectionText(tp[4])
        /\ Cardinality(OccLines) = Cardinality(WrongTuples)

\* An occurrence line is under the separator that precedes it
TaskAt(k) ==
    LET j == CHOOSE i \in 1..(k - 1) :
                 IsSep(locations[i]) /\ \A h \in (i + 1)..(k - 1) : ~IsSep(locations[h])
    IN  Tail(locations[j])

\* C3: over the whole locations report, every occurrence line is under the
\* separator of its own task, a separator is followed by an occurrence line,
\* two successive separators name different tasks (none is repeated while the
\* task stays the same), and the report ends with its only blank line.
C3_Separators ==
    Delivered =>
        /\ locations[Len(locations)] = << >>
        /\ \A k \in 1..(Len(locations) - 1) : locations[k] # << >>
        /\ \A k \in OccLines : \E j \in 1..(k - 1) : IsSep(locations[j])
        /\ { << TaskAt(k), locations[k] >> : k \in OccLines }
              = { << tp[2], occLine(tp[1], tp[3], tp[4]) >> : tp \in WrongTuples }
        /\ Cardinality(OccLines) = Cardinality(WrongTuples)
        /\ \A k \in 1..Len(locations) :
              IsSep(locations[k]) =>
                  /\ IsOcc(locations[k + 1])
                  /\ \A j \in 1..(k - 1) :
                        (IsSep(locations[j]) /\ \A h \in (j + 1)..(k - 1) : ~IsSep(locations[h]))
                            => locations[j] # locations[k]

\* A report where the separator of one task comes twice (another task between),
\* and two sections of one word in one file follow each other under one separator
C3_Witness ==
    /\ Delivered
    /\ \E j, k \in 1..Len(locations) :
          j < k /\ IsSep(locations[j]) /\ locations[j] = locations[k]
    /\ \E k \in OccLines, tp, tq \in WrongTuples :
          /\ tp[1] = tq[1] /\ tp[2] = tq[2] /\ tp[3] = tq[3] /\ tp[4] # tq[4]
          /\ locations[k] = occLine(tp[1], tp[3], tp[4])
          /\ locations[k + 1] = occLine(tq[1], tq[3], tq[4])

\* The step is a call of operation (line 343)
OperationStep == pc = "files" /\ fi <= Len(srcFiles)

IsBlock(node) == node.tp \in {"Module", "ClassDef", "FunctionDef"}
Recordable(doc) == { w \in UNION { Range(doc.lines[i]) : i \in 1..Len(doc.lines) } : ~Excluded(w) }
MsgCount(d, key) == IF key \in DOMAIN d THEN Len(d[key]) ELSE 0

\* C5: when the documentation text of one block of a parsed source file cannot be
\* retrieved, one diagnostic is recorded for that block and every other block of
\* the file with a text still has its words in the index.
C5_WalkGoesOn ==
    (endswith(lastOp.srcFile, PySuffix) /\ lastOp.content.ok) =>
        LET nodes == lastOp.content.nodes
            failing == { i \in 1..Len(nodes) : IsBlock(nodes[i]) /\ nodes[i].raises }
        IN  failing # {} =>
               /\ \A i \in failing :
                     \E k \in 1..MsgCount(messages, lastOp.srcx) :
                         messages[lastOp.srcx][k]
                             = Msg("docstring problem", lastOp.srcFile, Kind(nodes[i]))
               /\ \A i \in 1..Len(nodes) :
                     (IsBlock(nodes[i]) /\ ~nodes[i].raises) =>
                         \A w \in Recordable(nodes[i].doc) :
                             << w, lastOp.srcx, lastOp.srcFile, StrSec(Kind(nodes[i])) >>
                                 \in Tuples(words)

\* The file of the call could not be parsed (ast.parse or nbRead failed)
ParseFailed(op) ==
    /\ endswith(op.srcFile, PySuffix) \/ endswith(op.srcFile, IpynbSuffix)
    /\ ~op.content.ok

\* C6: a call of operation on a file that cannot be parsed adds one diagnostic
\* for the task, nothing to the index and to the line counts, and the loop goes
\* on with the next file: no parse failure ends the run.
C6_ParseFailureContinues ==
    [][ (OperationStep /\ ParseFailed(lastOp')) =>
            /\ pc' = "files" /\ fi' = fi + 1
            /\ words' = words /\ incoming' = incoming /\ filtered' = filtered
            /\ MsgCount(messages', srcx) = MsgCount(messages, srcx) + 1 ]_vars

\* check has run (line 367)
AfterCheck == pc \in {"deliver", "render", "done", "table raised"}

NoSuggestion(w) == Len(symspell[w]) = 0
Misspelt(w) == w \notin allowed /\ (NoSuggestion(w) \/ symspell[w][1] # w)

\* C7: after check the keys of the wrong-word map are the indexed words that
\* are not allowed and have no suggestion or a top suggestion other than the
\* word; the value is XX without a suggestion, the top suggestion otherwise; the
\* map is given by this set of pairs alone, whatever the order of the index.
C7_WrongMap ==
    IF AfterCheck
    THEN /\ WrongWords(wrong) = { w \in DOMAIN words : Misspelt(w) }
         /\ Len(wrong) = Cardinality(WrongWords(wrong))
         /\ \A k \in 1..Len(wrong) :
               /\ wrong[k].word \notin allowed
               /\ wrong[k].word \in DOMAIN words
               /\ wrong[k].corr = IF NoSuggestion(wrong[k].word) THEN XX
                                  ELSE symspell[wrong[k].word][1]
    ELSE wrong = << >>

\* An index with a word without suggestion, a word with another top suggestion,
\* an allowed word that the dictionary does not know, and a correct word
C7_Witness ==
    /\ AfterCheck
    /\ \E k \in 1..Len(wrong) : NoSuggestion(wrong[k].word) /\ wrong[k].corr = XX
    /\ \E k \in 1..Len(wrong) : ~NoSuggestion(wrong[k].word) /\ wrong[k].corr # XX
    /\ \E w \in DOMAIN words \cap allowed : NoSuggestion(w) \/ symspell[w][1] # w
    /\ \E w \in DOMAIN words \ allowed : symspell[w] = << w >>

\* The tuples that one call of operation records: the words of the chunks of
\* the file that are not excluded, each under its task, file and section
Mentioned(op) ==
    IF ~(\/ endswith(op.srcFile, MdSuffix) \/ endswith(op.srcFile, PySuffix)
         \/ endswith(op.srcFile, IpynbSuffix)) \/ ParseFailed(op)
    THEN {}
    ELSE LET chunks == extract(op.srcFile, op.content).chunks
         IN  UNION { { << w, op.srcx, op.srcFile, chunks[i].name >> :
                          w \in Recordable(chunks[i].text) } : i \in 1..Len(chunks) }

IndexInv ==
    \A w \in DOMAIN words :
        /\ ~Excluded(w)
        /\ \A i, j \in 1..Len(words[w]) : words[w][i].srcx = words[w][j].srcx => i = j
        /\ \A tp \in Tuples(words) :
              tp[1] = w => record(words[w], tp[2], tp[3], tp[4]) = words[w]

IndexStep ==
    /\ Tuples(words) \subseteq Tuples(words')
    /\ DOMAIN words \subseteq DOMAIN words'
    /\ IF OperationStep
       THEN Tuples(words') = Tuples(words) \cup Mentioned(lastOp')
       ELSE words' = words

\* C8: the index holds the set of tuples recorded so far: each call of operation
\* adds the tuples of its file to the set and nothing else changes it, recording
\* a tuple that is there changes nothing, no step removes a tuple or a word, and
\* no excluded word is a key.
C8_IndexGrows == []IndexInv /\ [][IndexStep]_vars

\* A task is scanned a second time and the file just processed recorded again
\* the tuples which the first scan had put into the index
C8_Witness ==
    /\ pc = "files" /\ t = 2 /\ fi = 2
    /\ totals.filtered > 0
    /\ Mentioned(lastOp) # {}
    /\ Tuples(words) = Mentioned(lastOp)
    /\ \E w \in DOMAIN words : \E f \in DOMAIN words[w][1].info :
          Cardinality(words[w][1].info[f]) > 1

\* C10: checkAll ends with the table complete: a row for each task that was
\* found, each with the statistics of that task, and the TOTAL row whose file
\* and line counts are the sums of the rows of the tasks.
C10_TableComplete ==
    pc \in {"done", "table raised"} =>
        /\ pc = "done"
        /\ Len(rows) = Len(selfTasks) + 1
        /\ \A i \in 1..Len(selfTasks) : rows[i].task = selfTasks[i] /\ rows[i].n = i
        /\ rows[Len(rows)].task = TOTAL
        /\ rows[Len(rows)].files = SumSeq(SubSeq(rows, 1, Len(rows) - 1), LAMBDA r : r.files)
        /\ rows[Len(rows)].incoming = SumSeq(SubSeq(rows, 1, Len(rows) - 1), LAMBDA r : r.incoming)
        /\ rows[Len(rows)].filtered = SumSeq(SubSeq(rows, 1, Len(rows) - 1), LAMBDA r : r.filtered)

\* The number of lines of a chunk with an odd number of backquotes
OddCount(chunk) ==
    LET lines == split(chunk)
    IN  Cardinality({ i \in 1..Len(lines) : count(lines[i], TICK) % 2 = 1 })

\* The balance check of one chunk appends n diagnostics, replaces no span and
\* hands the chunk on when a line is odd; it replaces the spans and appends
\* nothing when no line is odd
BalanceStep(n) ==
    stage = "ticks" =>
        /\ stage' = "tokens"
        /\ IF OddCount(text) > 0
           THEN /\ text' = text
                /\ Len(diag') = Len(diag) + n
                /\ SubSeq(diag', 1, Len(diag)) = diag
           ELSE /\ count(text', TICK) = 0
                /\ count(text, TICK) > 0 => text' # text
                /\ diag' = diag

\* C4 as stated: with an odd line, the diagnostics appended for the chunk are as
\* many as the offending lines.
C4_OnePerLine == [][BalanceStep(OddCount(text))]_vars

\* C4: with an odd line no backquote span of the chunk is replaced, the chunk
\* goes on to the tokens, and the diagnostics appended are one for each
\* offending line and one more for the chunk, which says that no code was
\* replaced; with no odd line every span is replaced and nothing is appended.
C4_OnePerLineAndOneMore ==
    [][ /\ BalanceStep(OddCount(text) + 1)
        /\ (stage = "ticks" /\ OddCount(text) > 0) =>
              /\ diag'[Len(diag')].kind = "No code replacement"
              /\ \A k \in (Len(diag) + 1)..(Len(diag') - 1) :
                    diag'[k].kind = "odd number of ticks" ]_vars

\* A chunk of three lines, two of them odd, the third with a span that stays
C4_Witness ==
    /\ stage = "tokens"
    /\ Len(diag) = 3
    /\ Len(split(text)) = 3
    /\ \E i \in 1..3 : count(split(text)[i], TICK) = 2

LooksLikeName(s) == match(PNAME_RE, s)

\* The heading rewrite and the link rewrite with Repl deciding on the captured text
HeadingWith(Repl(_), chunk) ==
    LET ms == finditer(HEADING_RE, chunk, 1)
    IN  splice(chunk, ms, [i \in 1..Len(ms) |-> Repl(group(chunk, ms[i], 4, 4))], 1, 1)

LinkWith(Repl(_), chunk) ==
    LET ms == finditer(LINK_RE, chunk, 1)
    IN  splice(chunk, ms, [i \in 1..Len(ms) |-> Repl(group(chunk, ms[i], 2, 2))], 1, 1)

\* C9 as stated: the captured text is kept when it looks like a name and
\* replaced by HEAD, resp. LINK, when it does not.
C9_NamesKept ==
    [][ /\ stage = "heading" =>
              text' = HeadingWith(LAMBDA s : IF LooksLikeName(s) THEN s ELSE HEAD, text)
        /\ stage = "link" =>
              text' = LinkWith(LAMBDA s : IF LooksLikeName(s) THEN s ELSE LINK, text) ]_vars

\* C9: in the heading rewrite and in the link rewrite the captured text is
\* replaced by HEAD, resp. LINK, when it looks like a name and kept as prose
\* when it does not.
C9_NamesReplaced ==
    [][ /\ stage = "heading" =>
              text' = HeadingWith(LAMBDA s : IF LooksLikeName(s) THEN HEAD ELSE s, text)
        /\ stage = "link" =>
              text' = LinkWith(LAMBDA s : IF LooksLikeName(s) THEN LINK ELSE s, text) ]_vars

\* After the link rewrite of a chunk with a link on a name and a link on prose:
\* the name has become LINK, the prose is there
C9_Witness ==
    /\ stage = "fence"
    /\ text = LINK \o << "a", "!" >>

\* The blocks of a parsed source file that have a documentation text
DocBlocks(nodes) == { i \in 1..Len(nodes) : IsBlock(nodes[i]) /\ nodes[i].doc.raw > 0 }

\* The lines of the chunks of a file that are handed to the substitutions
LinesNormalized(op) ==
    LET chunks == extract(op.srcFile, op.content).chunks
    IN  SumSeq(chunks, LAMBDA c : Len(c.text.lines))

\* C11: a call of operation on a source file that parses, none of whose blocks
\* fails, records every word that is not excluded of every block with a text
\* under the label of that block, also when two blocks have the same label, and
\* counts as many raw lines as there are lines in the chunks it normalizes.
C11_EveryBlockRecorded ==
    [][ (/\ OperationStep
         /\ endswith(lastOp'.srcFile, PySuffix) /\ lastOp'.content.ok
         /\ \A i \in 1..Len(lastOp'.content.nodes) : ~lastOp'.content.nodes[i].raises) =>
            LET nodes == lastOp'.content.nodes
            IN  /\ \A i \in DocBlocks(nodes) :
                      \A w \in Recordable(nodes[i].doc) :
                          << w, lastOp'.srcx, lastOp'.srcFile, StrSec(Kind(nodes[i])) >>
                              \in Tuples(words')
                /\ incoming' - incoming = LinesNormalized(lastOp') ]_vars

====
